---- MODULE Spec2Model ----
(***************************************************************************)
(* Model of the batch mutation engine (user and factory repositories,      *)
(* their services and endpoints) and of the factory integrity validator.   *)
(*                                                                         *)
(* The store is a relational table behind a SQLAlchemy session.  `db` is   *)
(* the committed table, `tx` the table as seen inside the transaction of   *)
(* the request in flight.  The user table and the factory table share      *)
(* nothing (no foreign key, separate repositories), so one behaviour       *)
(* follows one of the two tables: `entity` is chosen in Init and never     *)
(* changes.  The store is taken to enforce the declared column types and   *)
(* the primary key, as the PostgreSQL error handling of the repositories   *)
(* (pgcode) expects.                                                       *)
(***************************************************************************)
EXTENDS Integers, Sequences, FiniteSets, TLC

VARIABLES
    entity,         \* "user" | "factory": the table this behaviour follows
    db,             \* committed rows of the table
    pc,             \* "idle" | "loop" | "done" for a batch request,
                    \* "single" | "insert" | "answered" for a single-record one
    op,             \* "create" | "update" | "delete" of the batch request,
                    \* "create_one" | "update_one" of a single-record one
    input,          \* the request's list of mutation records
    i,              \* index of the next record the loop visits
    tx,             \* rows as seen inside the request's transaction
    ok_records,     \* the repository's ok_records (entities as flushed)
    error_records,  \* the repository's error_records
    calls,          \* session primitives issued by the request, in order
    pre,            \* committed rows when the request started
    response,       \* what the endpoint answered
    seen,           \* rows last read by another request on its own session
    chk,            \* the integrity validator's last call and its outcome
    rival           \* a second single-record Create of the same key, on a
                    \* session of its own

vars == <<entity, db, pc, op, input, i, tx, ok_records, error_records,
          calls, pre, response, seen, chk, rival>>

batchVars == <<pc, op, input, i, tx, ok_records, error_records, calls, pre,
               response, seen, rival>>

----------------------------------------------------------------------------
(* Bounds *)

MaxBatch == 2       \* longest input list of a batch call
MaxDate == 3        \* operation dates range over 1..MaxDate
MaxStored == 2      \* most factory rows in the store the validator reads

----------------------------------------------------------------------------
(* Values *)

Entities == {"user", "factory"}
Ops == {"create", "update", "delete"}

NoneId == "None"                \* UserBase.id left at its default
ExplicitIds == {"u1"}           \* ids a caller names
GenIds == {"g1"}                \* ids the uuid4 default factory produces
UserKeys == ExplicitIds \cup GenIds

FactoryKey(cc, pf, df, s, e) ==
    [company_code |-> cc, previous_factory_code |-> pf,
     product_factory_code |-> df, start_operation_date |-> s,
     end_operation_date |-> e]

\* factory keys the batch calls range over
BatchFactoryKeys ==
    {FactoryKey("c1", "p1", "d1", 1, 2), FactoryKey("c1", "p1", "d1", 2, 3)}

Unset == "UNSET"                \* field not supplied by the caller
Null == "NULL"                  \* field explicitly null / column NULL

\* The one attribute followed besides the key: `age` of a user,
\* `material_department_code` of a factory.
GoodVal(e) == IF e = "user" THEN "30" ELSE "ab"
BadVal(e) == IF e = "user" THEN "9999999999" ELSE "abcde"
StoredVals(e) == {Null, GoodVal(e)}
InputVals(e) == {Unset} \cup StoredVals(e) \cup {BadVal(e)}

StrLen(s) ==
    CASE s = "ab" -> 2
      [] s = "abcde" -> 5
      [] s \in {"c1", "c2", "p1", "p2", "d1", "d2"} -> 2
      [] OTHER -> 0

AgeOutOfRange == {"9999999999"}     \* beyond the INTEGER column of m_user.age
CodeMaxLength == 4                  \* max_length of the short factory columns

\* The column rejects the value on flush (DataError).
ColumnRejects(e, v) ==
    IF e = "user" THEN v \in AgeOutOfRange
    ELSE v # Null /\ StrLen(v) > CodeMaxLength

Keys(rows) == {r.key : r \in rows}
RowOf(rows, k) == CHOOSE r \in rows : r.key = k

InputKeys(e, o) ==
    IF e = "user" THEN UserKeys \cup {NoneId} ELSE BatchFactoryKeys

\* A delete record carries only its key.
InputRecords(e, o) ==
    {[key |-> k, val |-> v] :
        k \in InputKeys(e, o),
        v \in IF o = "delete" THEN {Unset} ELSE InputVals(e)}

BatchInputs(e, o) ==
    UNION {[1..n -> InputRecords(e, o)] : n \in 0..MaxBatch}

NoResponse == [status |-> 0, ok_records |-> <<>>, error_records |-> <<>>]
NoRead == [read |-> FALSE, rows |-> {}]
ChkIdle == [fn |-> "none"]
NoRival == [pc |-> "none"]

----------------------------------------------------------------------------
(* Session primitives *)

\* get_by_id / get_by_unique_keys inside the request's transaction
IsNone(e, k) == e = "user" /\ k = NoneId
Found(e, rows, k) == ~IsNone(e, k) /\ k \in Keys(rows)

\* savepoint.commit(): releases the savepoint into the enclosing
\* transaction; the committed table is untouched.
ReleaseSavepointWritesThrough(d, t) == t
ReleaseSavepoint(d, t) == d

\* session.rollback(): the enclosing transaction is discarded.
SessionRollbackKeepsWrites(d, t) == t
SessionRollback(d, t) == d

\* session.commit(): the transaction's rows become the committed rows.
SessionCommit(d, t) == t

\* model_dump(): every field with its value; a field the caller left
\* unset appears with its default, None
ModelDump(r) == [r EXCEPT !.val = IF @ = Unset THEN Null ELSE @]

ErrorRecordWithoutFields(code, r) ==
    [level |-> "E", code |-> code, record |-> [key |-> r.key, val |-> Unset]]
ErrorRecord(code, r) ==
    [level |-> "E", code |-> code, record |-> ModelDump(r)]

\* What the lookup failure of an Update/Delete record appends to
\* error_records: the factory Update `continue`s without appending.
NotFoundOutcome(e, o, r) ==
    IF e = "factory" /\ o = "update" THEN <<>>
    ELSE <<ErrorRecord("NotFoundError", r)>>

\* pgcode of the exception the flush of `row` raises, "" when it succeeds.
\* a uniqueness check that would see committed rows only, not the rows
\* pending in the transaction
CreateFlushErrorSeesCommittedOnly(e, t, row) ==
    IF ColumnRejects(e, row.val)
    THEN IF e = "user" THEN "PG22003" ELSE "PG22001"
    ELSE IF row.key \in Keys(db) THEN "PG23505" ELSE ""
\* a store without its primary-key constraint
CreateFlushErrorNoUniqueness(e, t, row) ==
    IF ColumnRejects(e, row.val)
    THEN IF e = "user" THEN "PG22003" ELSE "PG22001"
    ELSE ""
\* a batch Create with the explicit duplicate check
CreateFlushErrorPrechecked(e, t, row) ==
    IF row.key \in Keys(t) THEN "DuplicateKeyError"
    ELSE IF ColumnRejects(e, row.val)
    THEN IF e = "user" THEN "PG22003" ELSE "PG22001"
    ELSE ""
CreateFlushError(e, t, row) ==
    IF ColumnRejects(e, row.val)
    THEN IF e = "user" THEN "PG22003" ELSE "PG22001"
    ELSE IF row.key \in Keys(t) THEN "PG23505" ELSE ""

UpdateFlushError(e, r) ==
    IF r.val # Unset /\ ColumnRejects(e, r.val)
    THEN IF e = "user" THEN "PG22003" ELSE "PG22001"
    ELSE ""

\* model_dump(exclude_unset=True) + setattr: only supplied fields change
MergeOverwritesUnset(row, r) ==
    [row EXCEPT !.val = IF r.val = Unset THEN Null ELSE r.val]
Merge(row, r) == [row EXCEPT !.val = IF r.val = Unset THEN @ ELSE r.val]

\* a constructor that would lose the supplied field value
NewRowDropsValue(k, r) == [key |-> k, val |-> Null]
\* User(**model_dump()) / KoujyouMaster(**model_dump()): unset is NULL
NewRow(k, r) == [key |-> k, val |-> IF r.val = Unset THEN Null ELSE r.val]

----------------------------------------------------------------------------
(* Batch calls: repository loop, whole-batch decision, service, endpoint *)

NoneCount(e, recs) ==
    Cardinality({j \in DOMAIN recs : IsNone(e, recs[j].key)})
NamedKeys(recs) == {recs[j].key : j \in DOMAIN recs}

\* ids the uuid4 default can still produce: it collides with no stored id
\* and with no id the caller names
FreshIds(rows, recs) ==
    {g \in GenIds : g \notin Keys(rows) /\ g \notin NamedKeys(recs)}

Init ==
    /\ entity \in Entities
    /\ db = {}
    /\ pc = "idle"
    /\ op = "create"
    /\ input = <<>>
    /\ i = 1
    /\ tx = db
    /\ ok_records = <<>>
    /\ error_records = <<>>
    /\ calls = <<>>
    /\ pre = db
    /\ response = NoResponse
    /\ seen = NoRead
    /\ chk = ChkIdle
    /\ rival = NoRival

\* A batch request arrives; its session starts from the committed table.
BeginBatch(o, recs) ==
    /\ pc = "idle"
    /\ (o = "create" /\ entity = "user") =>
            NoneCount(entity, recs) <= Cardinality(FreshIds(db, recs))
    /\ pc' = "loop"
    /\ op' = o
    /\ input' = recs
    /\ i' = 1
    /\ tx' = db
    /\ ok_records' = <<>>
    /\ error_records' = <<>>
    /\ calls' = <<>>
    /\ pre' = db
    /\ response' = NoResponse
    /\ seen' = NoRead
    /\ UNCHANGED <<entity, db, chk, rival>>

\* One iteration of the loop of create_multiple_user /
\* create_multiple_koujyou_master: no lookup, insert inside a savepoint.
CreateRecord ==
    /\ pc = "loop" /\ op = "create" /\ i <= Len(input)
    /\ \E k \in (IF IsNone(entity, input[i].key) THEN FreshIds(tx, input)
                 ELSE {input[i].key}) :
        LET r == input[i]
            row == NewRow(k, r)
            err == CreateFlushError(entity, tx, row)
        IN  IF err = ""
            THEN /\ tx' = tx \cup {row}
                 /\ ok_records' = Append(ok_records, row)
                 /\ calls' = calls \o <<"begin_nested", "flush", "sp_commit">>
                 /\ db' = ReleaseSavepoint(db, tx')
                 /\ UNCHANGED error_records
            ELSE /\ error_records' = Append(error_records, ErrorRecord(err, r))
                 /\ calls' = calls \o <<"begin_nested", "flush", "sp_rollback">>
                 /\ UNCHANGED <<tx, ok_records, db>>
    /\ i' = i + 1
    /\ UNCHANGED <<entity, pc, op, input, pre, response, seen, chk, rival>>

\* One iteration of the loop of update_user_batch /
\* update_koujyou_master_batch: lookup, then field merge inside a savepoint.
UpdateRecord ==
    /\ pc = "loop" /\ op = "update" /\ i <= Len(input)
    /\ LET r == input[i]
           sel == IF IsNone(entity, r.key) THEN <<>> ELSE <<"select">>
       IN  IF ~Found(entity, tx, r.key)
           THEN /\ error_records' = error_records \o NotFoundOutcome(entity, op, r)
                /\ calls' = calls \o sel
                /\ UNCHANGED <<tx, ok_records, db>>
           ELSE LET row == Merge(RowOf(tx, r.key), r)
                    err == UpdateFlushError(entity, r)
                IN  IF err = ""
                    THEN /\ tx' = (tx \ {RowOf(tx, r.key)}) \cup {row}
                         /\ ok_records' = Append(ok_records, row)
                         /\ calls' = calls \o sel \o
                                <<"begin_nested", "flush", "sp_commit">>
                         /\ db' = ReleaseSavepoint(db, tx')
                         /\ UNCHANGED error_records
                    ELSE /\ error_records' =
                                Append(error_records, ErrorRecord(err, r))
                         /\ calls' = calls \o sel \o
                                <<"begin_nested", "flush", "sp_rollback">>
                         /\ UNCHANGED <<tx, ok_records, db>>
    /\ i' = i + 1
    /\ UNCHANGED <<entity, pc, op, input, pre, response, seen, chk, rival>>

\* a Delete loop that would open the savepoint before the lookup and
\* leave it open when the key is not found
DeleteRecordSavepointFirst ==
    /\ pc = "loop" /\ op = "delete" /\ i <= Len(input)
    /\ LET r == input[i]
           sel == IF IsNone(entity, r.key) THEN <<>> ELSE <<"select">>
       IN  IF ~Found(entity, tx, r.key)
           THEN /\ error_records' = error_records \o NotFoundOutcome(entity, op, r)
                /\ calls' = calls \o <<"begin_nested">> \o sel
                /\ UNCHANGED <<tx, ok_records, db>>
           ELSE /\ tx' = tx \ {RowOf(tx, r.key)}
                /\ ok_records' = Append(ok_records, RowOf(tx, r.key))
                /\ calls' = calls \o <<"begin_nested">> \o sel \o
                        <<"flush", "sp_commit">>
                /\ db' = ReleaseSavepoint(db, tx')
                /\ UNCHANGED error_records
    /\ i' = i + 1
    /\ UNCHANGED <<entity, pc, op, input, pre, response, seen, chk, rival>>

\* One iteration of the loop of delete_multiple_user /
\* delete_multiple_koujyou_master: lookup, then delete inside a savepoint.
DeleteRecord ==
    /\ pc = "loop" /\ op = "delete" /\ i <= Len(input)
    /\ LET r == input[i]
           sel == IF IsNone(entity, r.key) THEN <<>> ELSE <<"select">>
       IN  IF ~Found(entity, tx, r.key)
           THEN /\ error_records' = error_records \o NotFoundOutcome(entity, op, r)
                /\ calls' = calls \o sel
                /\ UNCHANGED <<tx, ok_records, db>>
           ELSE /\ tx' = tx \ {RowOf(tx, r.key)}
                /\ ok_records' = Append(ok_records, RowOf(tx, r.key))
                /\ calls' = calls \o sel \o
                        <<"begin_nested", "flush", "sp_commit">>
                /\ db' = ReleaseSavepoint(db, tx')
                /\ UNCHANGED error_records
    /\ i' = i + 1
    /\ UNCHANGED <<entity, pc, op, input, pre, response, seen, chk, rival>>

\* UserResponse.model_validate(item) / KoujyouMasterResponse.model_validate:
\* reads the attributes of the ORM object.  An object that is persistent
\* and expired (after the rollback, or refreshed after the commit) is
\* loaded from the table `d`; an object made transient by the rollback of
\* its insert, or detached by the commit of its delete, keeps the
\* attributes it had in memory.
ModelValidate(o, d, rolled, row) ==
    IF rolled
    THEN IF o = "create" THEN row ELSE RowOf(d, row.key)
    ELSE IF o = "delete" THEN row ELSE RowOf(d, row.key)

\* The service's return value: ok_records validated one by one,
\* error_records passed on as they are.
ServiceResultDropsErrors(o, d, rolled, oks, errs) ==
    [ok_records |-> [j \in DOMAIN oks |-> ModelValidate(o, d, rolled, oks[j])],
     error_records |-> <<>>]
ServiceResult(o, d, rolled, oks, errs) ==
    [ok_records |-> [j \in DOMAIN oks |-> ModelValidate(o, d, rolled, oks[j])],
     error_records |-> errs]

\* The endpoint: 400 with the whole result as error details when
\* error_records is non-empty, success with the result as data otherwise.
EndpointResponseRejectsEmpty(result) ==
    [status |-> IF result.error_records # <<>> \/ result.ok_records = <<>>
                THEN 400 ELSE 200,
     ok_records |-> result.ok_records,
     error_records |-> result.error_records]
EndpointResponse(result) ==
    [status |-> IF result.error_records # <<>> THEN 400 ELSE 200,
     ok_records |-> result.ok_records,
     error_records |-> result.error_records]

\* a decision step that would commit whatever succeeded
BatchDecisionCommitsPartial ==
    /\ pc = "loop" /\ i > Len(input)
    /\ LET committed == ok_records # <<>>
           newdb == IF committed THEN SessionCommit(db, tx) ELSE db
       IN  /\ db' = newdb
           /\ tx' = newdb
           /\ calls' = calls \o (IF committed THEN <<"commit">> ELSE <<>>)
           /\ response' = EndpointResponse(
                  ServiceResult(op, newdb, FALSE, ok_records, error_records))
    /\ pc' = "done"
    /\ UNCHANGED <<entity, op, input, i, ok_records, error_records, pre,
                   seen, chk, rival>>

\* After the loop: rollback if any record failed, else one commit (and a
\* refresh of the created/updated entities) if any record succeeded; then
\* the service builds the result and the endpoint answers.
BatchDecision ==
    /\ pc = "loop" /\ i > Len(input)
    /\ LET rolled == error_records # <<>>
           committed == ~rolled /\ ok_records # <<>>
           newdb == IF rolled THEN SessionRollback(db, tx)
                    ELSE IF committed THEN SessionCommit(db, tx)
                    ELSE db
           endCalls == IF rolled THEN <<"rollback">>
                       ELSE IF ~committed THEN <<>>
                       ELSE IF op = "delete" THEN <<"commit">>
                       ELSE <<"commit", "refresh">>
       IN  /\ db' = newdb
           /\ tx' = newdb
           /\ calls' = calls \o endCalls
           /\ response' = EndpointResponse(
                  ServiceResult(op, newdb, rolled, ok_records, error_records))
    /\ pc' = "done"
    /\ UNCHANGED <<entity, op, input, i, ok_records, error_records, pre,
                   seen, chk, rival>>

\* get_all of another request, on that request's own session: it reads the
\* committed rows.
OtherSessionRead ==
    /\ pc \in {"loop", "done"}
    /\ seen # [read |-> TRUE, rows |-> db]
    /\ seen' = [read |-> TRUE, rows |-> db]
    /\ UNCHANGED <<entity, db, pc, op, input, i, tx, ok_records,
                   error_records, calls, pre, response, chk, rival>>

\* The response has been sent: get_session leaves its `with` block and the
\* request's session is closed.
CloseSession ==
    /\ pc = "done"
    /\ pc' = "idle"
    /\ op' = "create"
    /\ input' = <<>>
    /\ i' = 1
    /\ tx' = db
    /\ ok_records' = <<>>
    /\ error_records' = <<>>
    /\ calls' = <<>>
    /\ pre' = db
    /\ response' = NoResponse
    /\ seen' = NoRead
    /\ UNCHANGED <<entity, db, chk, rival>>

\* Any batch endpoint may be called with any input list.
ReceiveBatch ==
    /\ pc = "idle"
    /\ \E o \in Ops : \E recs \in BatchInputs(entity, o) : BeginBatch(o, recs)

(* Single-record Create and Update *)

SingleOps == {"create_one", "update_one"}

SingleResponse(status, rows) ==
    [status |-> status, ok_records |-> rows, error_records |-> <<>>]

\* a Create that would skip the look-up of the existing entity
PrecheckSkipped(e, rows, r) == FALSE
\* UserService.create_user / InventoryService.create_koujyou_master:
\* exists = repository.get_by_id(id) / get_by_unique_keys(data)
Precheck(e, rows, r) == Found(e, rows, r.key)

\* the `except Exception` of the single-record services: whatever the
\* store raised, the answer is HTTP 500
SingleErrorSwallowed(err) == 200
SingleErrorStatus(err) == 500

\* a service that would report a failed look-up like any other exception
NotFoundAsServerError == SingleErrorStatus("HTTPException")
\* `raise HTTPException(404)` passes through `except HTTPException: raise`
NotFoundStatus == 404

\* POST/PUT of one record arrives on a fresh session.
ReceiveSingle ==
    /\ pc = "idle"
    /\ \E o \in SingleOps : \E r \in InputRecords(entity, "create") :
        /\ (o = "create_one" /\ IsNone(entity, r.key)) =>
                FreshIds(db, <<r>>) # {}
        /\ pc' = "single"
        /\ op' = o
        /\ input' = <<r>>
    /\ i' = 1
    /\ tx' = db
    /\ ok_records' = <<>>
    /\ error_records' = <<>>
    /\ calls' = <<>>
    /\ pre' = db
    /\ response' = NoResponse
    /\ seen' = NoRead
    /\ UNCHANGED <<entity, db, chk, rival>>

\* The service's look-up before the insert: an existing key is answered
\* 409 at once.
SingleCreatePrecheck ==
    /\ pc = "single" /\ op = "create_one"
    /\ LET r == input[1]
           sel == IF IsNone(entity, r.key) THEN <<>> ELSE <<"select">>
       IN  /\ calls' = calls \o sel
           /\ IF Precheck(entity, db, r)
              THEN /\ pc' = "answered"
                   /\ response' = SingleResponse(409, <<>>)
              ELSE /\ pc' = "insert"
                   /\ UNCHANGED response
    /\ UNCHANGED <<entity, db, op, input, i, tx, ok_records, error_records,
                   pre, seen, chk, rival>>

\* A second Create of the same key arrives on a session of its own and
\* runs the service's look-up while the first request has not committed.
OtherSessionPrecheck ==
    /\ pc \in {"single", "insert"} /\ op = "create_one"
    /\ rival = NoRival
    /\ ~IsNone(entity, input[1].key)
    /\ \E r \in InputRecords(entity, "create") :
        /\ r.key = input[1].key
        /\ rival' = IF Precheck(entity, db, r)
                     THEN [pc |-> "answered", record |-> r,
                           response |-> SingleResponse(409, <<>>)]
                     ELSE [pc |-> "insert", record |-> r]
    /\ UNCHANGED <<entity, db, pc, op, input, i, tx, ok_records,
                   error_records, calls, pre, response, seen, chk>>

\* The second request's add, commit, refresh: the row is committed, or
\* the store rejects it and the service answers the error.
OtherSessionCreate ==
    /\ pc \in {"insert", "answered"}
    /\ rival.pc = "insert"
    /\ LET row == NewRow(rival.record.key, rival.record)
           err == CreateFlushError(entity, db, row)
       IN  IF err = ""
           THEN /\ db' = SessionCommit(db, db \cup {row})
                /\ rival' = [pc |-> "answered", record |-> rival.record,
                              response |-> SingleResponse(200, <<row>>)]
           ELSE /\ db' = db
                /\ rival' = [pc |-> "answered", record |-> rival.record,
                              response |->
                                SingleResponse(SingleErrorStatus(err), <<>>)]
    /\ tx' = IF pc = "insert" THEN db' ELSE tx
    /\ UNCHANGED <<entity, pc, op, input, i, ok_records, error_records,
                   calls, pre, response, seen, chk>>

\* repository.create_user / create_koujyou_master: add, commit, refresh;
\* the service answers the entity, or 500 when the commit raised.
SingleCreateWrite ==
    /\ pc = "insert"
    /\ \E k \in (IF IsNone(entity, input[1].key) THEN FreshIds(db, input)
                 ELSE {input[1].key}) :
        LET row == NewRow(k, input[1])
            err == CreateFlushError(entity, db, row)
        IN  IF err = ""
            THEN /\ db' = SessionCommit(db, db \cup {row})
                 /\ calls' = calls \o <<"add", "commit", "refresh">>
                 /\ response' = SingleResponse(200, <<row>>)
            ELSE /\ db' = db
                 /\ calls' = calls \o <<"add", "commit">>
                 /\ response' = SingleResponse(SingleErrorStatus(err), <<>>)
    /\ tx' = db'
    /\ pc' = "answered"
    /\ UNCHANGED <<entity, op, input, i, ok_records, error_records, pre,
                   seen, chk, rival>>

\* repository.update_user / update_koujyou_master and the service around
\* it: look-up, field merge, commit, refresh.
SingleUpdate ==
    /\ pc = "single" /\ op = "update_one"
    /\ LET r == input[1]
           sel == IF IsNone(entity, r.key) THEN <<>> ELSE <<"select">>
       IN  IF ~Found(entity, db, r.key)
           THEN /\ db' = db
                /\ calls' = calls \o sel
                /\ response' = SingleResponse(NotFoundStatus, <<>>)
           ELSE LET row == Merge(RowOf(db, r.key), r)
                    err == UpdateFlushError(entity, r)
                IN  IF err = ""
                    THEN /\ db' = SessionCommit(db,
                                    (db \ {RowOf(db, r.key)}) \cup {row})
                         /\ calls' = calls \o sel
                                        \o <<"add", "commit", "refresh">>
                         /\ response' = SingleResponse(200, <<row>>)
                    ELSE /\ db' = db
                         /\ calls' = calls \o sel \o <<"add", "commit">>
                         /\ response' =
                                SingleResponse(SingleErrorStatus(err), <<>>)
    /\ tx' = db'
    /\ pc' = "answered"
    /\ UNCHANGED <<entity, op, input, i, ok_records, error_records, pre,
                   seen, chk, rival>>

\* The single-record request is over and its session is closed.
CloseSingle ==
    /\ pc = "answered"
    /\ rival.pc # "insert"
    /\ pc' = "idle"
    /\ op' = "create"
    /\ input' = <<>>
    /\ i' = 1
    /\ tx' = db
    /\ ok_records' = <<>>
    /\ error_records' = <<>>
    /\ calls' = <<>>
    /\ pre' = db
    /\ response' = NoResponse
    /\ seen' = NoRead
    /\ rival' = NoRival
    /\ UNCHANGED <<entity, db, chk>>

Next ==
    \/ ReceiveBatch
    \/ CreateRecord
    \/ UpdateRecord
    \/ DeleteRecord
    \/ BatchDecision
    \/ OtherSessionRead
    \/ CloseSession
    \/ ReceiveSingle
    \/ SingleCreatePrecheck
    \/ OtherSessionPrecheck
    \/ OtherSessionCreate
    \/ SingleCreateWrite
    \/ SingleUpdate
    \/ CloseSingle

Spec == Init /\ [][Next]_vars

----------------------------------------------------------------------------
(* Integrity validator of the factory master *)

\* The fields CheckIntegrityResponse declares.  The service constructs it
\* with pk_detail= and error_data= as well; a pydantic model ignores
\* keyword arguments it does not declare, and reading an undeclared
\* attribute raises AttributeError.
CheckIntegrityResponseFields == {"error_codes", "error_messages"}

Dates == 1..MaxDate
BaseTriple == [company_code |-> "c1", previous_factory_code |-> "p1",
               product_factory_code |-> "d1"]
OtherTriple == [company_code |-> "c1", previous_factory_code |-> "p2",
                product_factory_code |-> "d1"]
Triples == {BaseTriple, OtherTriple}

ValidatorKeys ==
    {FactoryKey(t.company_code, t.previous_factory_code,
                t.product_factory_code, s, e) :
        t \in Triples, s \in Dates, e \in Dates}

\* Stores the validator may find: any rows with distinct keys (a batch
\* Create checks no interval, so inverted and empty intervals can be
\* stored); the attribute of a stored row plays no part in a check.
ValidatorRows == {[key |-> k, val |-> Null] : k \in ValidatorKeys}

RECURSIVE StoresUpTo(_)
StoresUpTo(n) ==
    IF n = 0 THEN {{}}
    ELSE LET smaller == StoresUpTo(n - 1)
         IN  smaller \cup {S \cup {r} : S \in smaller, r \in ValidatorRows}

\* A KoujyouMasterBase whose required company_code holds None: the schema
\* validates on construction only, not on assignment, and the validator
\* takes whatever instance it is handed.
NullCodeCandidates ==
    {[key |-> FactoryKey(Null, BaseTriple.previous_factory_code,
                         BaseTriple.product_factory_code, 1, 2),
      val |-> v] : v \in {Null, "abcde"}}

\* Candidates are KoujyouMasterBase instances: all five key fields are
\* present and typed; an unset material_department_code dumps as None.
Candidates ==
    {[key |-> FactoryKey(BaseTriple.company_code,
                         BaseTriple.previous_factory_code,
                         BaseTriple.product_factory_code, s, e),
      val |-> v] :
        s \in Dates, e \in Dates, v \in {Null, "ab", "abcde"}}
    \cup NullCodeCandidates

Flags == [pk_check : BOOLEAN, datatype_check : BOOLEAN,
          time_logic_check : BOOLEAN]

\* every order in which a SELECT without ORDER BY may return `S`
Orderings(S) ==
    {f \in [1..Cardinality(S) -> S] :
        \A a, b \in 1..Cardinality(S) : a # b => f[a] # f[b]}

EmptyCheck == [error_codes |-> <<>>, error_messages |-> <<>>,
               error_data |-> <<>>, raised |-> FALSE, queries |-> <<>>]

\* response.error_codes.append / error_messages.append / error_data.append,
\* in that order: the third raises when the attribute is not declared.
AppendViolation(resp, code, msg, data) ==
    IF resp.raised THEN resp
    ELSE IF "error_data" \in CheckIntegrityResponseFields
    THEN [resp EXCEPT !.error_codes = Append(@, code),
                      !.error_messages = Append(@, msg),
                      !.error_data = Append(@, data)]
    ELSE [resp EXCEPT !.error_codes = Append(@, code),
                      !.error_messages = Append(@, msg),
                      !.raised = TRUE]

SameTriple(a, b) ==
    /\ a.previous_factory_code = b.previous_factory_code
    /\ a.product_factory_code = b.product_factory_code
    /\ a.company_code = b.company_code

\* InventoryRepository.get_time_related_records
get_time_related_records(rows, cand) ==
    {r \in rows : SameTriple(r.key, cand.key)}

\* InventoryRepository.get_by_unique_keys: the row with the candidate's
\* five key fields, if any
get_by_unique_keys(rows, cand) == {r \in rows : r.key = cand.key}

\* a primary-key check that would write while looking up
PkCheckCommits(rows, cand, resp) ==
    [resp EXCEPT !.queries = Append(@, "commit")]
PkCheck(rows, cand, resp) ==
    LET q == [resp EXCEPT !.queries = Append(@, "get_by_unique_keys")]
    IN  IF get_by_unique_keys(rows, cand) # {}
        THEN AppendViolation(q, "PK_CHECK_FAILED", "pk exists", [none |-> TRUE])
        ELSE q

\* One string field of _validate_datatypes: None is skipped for an
\* Optional field and reported for a required one; a str longer than the
\* declared max_length is reported.
StrFieldCheck(resp, name, value, optional, max_length) ==
    IF resp.raised THEN resp
    ELSE IF value = Null
    THEN IF optional THEN resp
         ELSE AppendViolation(resp, "DATATYPE_CHECK_FAILED", name,
                              [field_name |-> name, actual_type_str |-> "None"])
    ELSE IF StrLen(value) > max_length
    THEN AppendViolation(resp, "DATATYPE_CHECK_FAILED_LENGTH", name,
                         [field_name |-> name, max_length |-> max_length,
                          actual_length |-> StrLen(value)])
    ELSE resp

\* InventoryService._validate_datatypes over KoujyouMaster.model_fields, in
\* declaration order.  The two date fields of a candidate are dates and
\* add nothing; the optional string columns other than
\* material_department_code are held at None and add nothing.
_validate_datatypes(cand, resp) ==
    LET k == cand.key
        r1 == StrFieldCheck(resp, "previous_factory_code",
                            k.previous_factory_code, FALSE, CodeMaxLength)
        r2 == StrFieldCheck(r1, "company_code", k.company_code, FALSE,
                            CodeMaxLength)
        r3 == StrFieldCheck(r2, "product_factory_code",
                            k.product_factory_code, FALSE, CodeMaxLength)
    IN  StrFieldCheck(r3, "material_department_code", cand.val, TRUE,
                      CodeMaxLength)

\* the test of lines 605-610: the candidate lies wholly before or wholly
\* after the stored record, strictly, on all four comparisons
FullyApart(n_start, n_end, r_start, r_end) ==
    \/ (n_start < r_start /\ n_start < r_end /\ n_end < r_start /\ n_end < r_end)
    \/ (n_start > r_start /\ n_start > r_end /\ n_end > r_start /\ n_end > r_end)

RECURSIVE TimeLogicLoop(_, _, _, _)
TimeLogicLoop(cand, resp, records, j) ==
    IF j > Len(records) \/ resp.raised THEN resp
    ELSE LET rk == records[j].key
             next ==
                IF FullyApart(cand.key.start_operation_date,
                              cand.key.end_operation_date,
                              rk.start_operation_date, rk.end_operation_date)
                THEN resp
                ELSE AppendViolation(resp, "TIME_LOGIC_CHECK_CONFLICTED",
                                     "conflict", [pk_conflicted |-> rk])
         IN  TimeLogicLoop(cand, next, records, j + 1)

\* InventoryService._validate_time_logic; `records` is the sibling list in
\* the order the store returned it.
_validate_time_logic(cand, resp, records) ==
    IF cand.key.start_operation_date >= cand.key.end_operation_date
    THEN AppendViolation(resp, "TIME_LOGIC_CHECK_INVALID", "invalid",
                         [pk_conflicted |-> cand.key])
    ELSE TimeLogicLoop(
            cand,
            [resp EXCEPT !.queries = Append(@, "get_time_related_records")],
            records, 1)

\* What the caller of the service gets: the response object, or the
\* HTTPException(500) of the `except Exception` handler.
Outcome(resp) ==
    IF resp.raised
    THEN [kind |-> "HTTPException", status |-> 500, fields |-> {},
          error_codes |-> <<>>,
          error_messages |-> <<>>, error_data |-> <<>>,
          queries |-> resp.queries]
    ELSE [kind |-> "result", status |-> 200,
          fields |-> CheckIntegrityResponseFields,
          error_codes |-> resp.error_codes,
          error_messages |-> resp.error_messages,
          error_data |-> resp.error_data, queries |-> resp.queries]

\* InventoryService.check_integrity
check_integrity(rows, cand, f, records) ==
    LET r1 == IF f.pk_check THEN PkCheck(rows, cand, EmptyCheck)
              ELSE EmptyCheck
        r2 == IF f.datatype_check /\ ~r1.raised
              THEN _validate_datatypes(cand, r1) ELSE r1
        r3 == IF f.time_logic_check /\ ~r2.raised
              THEN _validate_time_logic(cand, r2, records) ELSE r2
    IN  Outcome(r3)

\* InventoryService.check_integrity_2: the same without the datatype family
check_integrity_2(rows, cand, f, records) ==
    LET r1 == IF f.pk_check THEN PkCheck(rows, cand, EmptyCheck)
              ELSE EmptyCheck
        r3 == IF f.time_logic_check /\ ~r1.raised
              THEN _validate_time_logic(cand, r1, records) ELSE r1
    IN  Outcome(r3)

InitCheck ==
    /\ entity = "factory"
    /\ db \in StoresUpTo(MaxStored)
    /\ pc = "idle"
    /\ op = "create"
    /\ input = <<>>
    /\ i = 1
    /\ tx = db
    /\ ok_records = <<>>
    /\ error_records = <<>>
    /\ calls = <<>>
    /\ pre = db
    /\ response = NoResponse
    /\ seen = NoRead
    /\ chk = ChkIdle
    /\ rival = NoRival

CheckIntegrity ==
    /\ chk = ChkIdle
    /\ \E cand \in Candidates : \E f \in Flags :
      \E records \in Orderings(get_time_related_records(db, cand)) :
        /\ chk' = [fn |-> "check_integrity", candidate |-> cand, flags |-> f,
                   outcome |-> check_integrity(db, cand, f, records)]
        /\ UNCHANGED <<entity, db, batchVars>>

CheckIntegrity2 ==
    /\ chk = ChkIdle
    /\ \E cand \in Candidates : \E f \in Flags :
      \E records \in Orderings(get_time_related_records(db, cand)) :
        /\ chk' = [fn |-> "check_integrity_2", candidate |-> cand,
                   flags |-> f,
                   outcome |-> check_integrity_2(db, cand, f, records)]
        /\ UNCHANGED <<entity, db, batchVars>>

\* the request is over: the validator keeps nothing between calls
CheckReturned ==
    /\ chk # ChkIdle
    /\ chk' = ChkIdle
    /\ UNCHANGED <<entity, db, batchVars>>

NextCheck == CheckIntegrity \/ CheckIntegrity2 \/ CheckReturned

SpecCheck == InitCheck /\ [][NextCheck]_vars

----------------------------------------------------------------------------
(* Properties *)

AtDone == pc = "done"
Failed == error_records # <<>>
CountCode(codes, c) == Cardinality({j \in DOMAIN codes : codes[j] = c})
Checked == chk.fn # "none"

\* C1  All-or-nothing: when a batch call returns with a non-empty
\* error_records, the store is identical to the store before the call; no
\* effect of any record remains, those listed in ok_records included.
C1_AllOrNothing == (AtDone /\ Failed) => db = pre

\* a batch in which one record succeeded and another failed has returned
C1_Witness ==
    AtDone /\ Failed /\ ok_records # <<>> /\ pre # {} /\ db = pre

\* C2  Not-found isolation: a batch Update or Delete whose input has a key
\* absent from the store and a key present in it returns a NotFoundError
\* entry for the absent key, is answered as a client error, and leaves
\* the record of every present key unchanged.
C2_NotFoundIsolation ==
    (/\ AtDone
     /\ op \in {"update", "delete"}
     /\ \E j \in DOMAIN input : ~Found(entity, pre, input[j].key)
     /\ \E j \in DOMAIN input : Found(entity, pre, input[j].key))
    => /\ \A j \in DOMAIN input :
            ~Found(entity, pre, input[j].key) =>
                \E e \in DOMAIN error_records :
                    /\ error_records[e].code = "NotFoundError"
                    /\ error_records[e].record = ModelDump(input[j])
       /\ response.status = 400
       /\ \A j \in DOMAIN input :
            Found(entity, pre, input[j].key) =>
                /\ Found(entity, db, input[j].key)
                /\ RowOf(db, input[j].key) = RowOf(pre, input[j].key)

\* C3  Completeness: every input record produces exactly one outcome, so
\* len(ok_records) + len(error_records) = len(input_records).
C3_Completeness ==
    AtDone => Len(ok_records) + Len(error_records) = Len(input)

\* C4 as stated: a batch call with a non-empty error_records is answered
\* 400 with an empty ok_records and the full error_records.
C4_EmptyOkOnFailure ==
    (AtDone /\ Failed) =>
        /\ response.status = 400
        /\ response.ok_records = <<>>
        /\ response.error_records = error_records

\* C4  A batch call with a non-empty error_records is answered 400 with the
\* full error_records and with ok_records listing, in input order, every
\* record whose own savepoint succeeded, although the store holds none of
\* their effects; ok_records is empty only when no record succeeded.
C4_FailureCarriesBothLists ==
    (AtDone /\ Failed) =>
        /\ response.status = 400
        /\ response.error_records = error_records
        /\ Len(response.ok_records) = Len(ok_records)
        /\ \A j \in DOMAIN ok_records :
                response.ok_records[j].key = ok_records[j].key
        /\ db = pre

\* a failed batch has been answered with a non-empty ok_records
C4_Witness ==
    AtDone /\ Failed /\ response.status = 400 /\ response.ok_records # <<>>

\* C5  Read-back after success: after a batch Create of R1..Rn that returns
\* with empty error_records the store is the store before the call plus
\* exactly one entity per Ri with Ri's key and field values, the outer
\* transaction has been committed, and a list call returns every Ri key.
C5_ReadBack ==
    (AtDone /\ op = "create" /\ ~Failed /\ input # <<>>) =>
        /\ Len(ok_records) = Len(input)
        /\ db = pre \cup {ok_records[j] : j \in DOMAIN ok_records}
        /\ Cardinality(db) = Cardinality(pre) + Len(input)
        /\ \A j \in DOMAIN input :
            /\ ok_records[j].val =
                    (IF input[j].val = Unset THEN Null ELSE input[j].val)
            /\ ~IsNone(entity, input[j].key) =>
                    ok_records[j].key = input[j].key
            /\ IsNone(entity, input[j].key) => ok_records[j].key \in GenIds
            /\ ok_records[j].key \in Keys(db)
        /\ calls[Len(calls) - 1] = "commit"
        /\ response.status = 200
        /\ \A j \in DOMAIN input : response.ok_records[j] \in db

\* a batch Create into a store that already held a record has succeeded
C5_Witness ==
    /\ AtDone /\ op = "create" /\ ~Failed /\ input # <<>>
    /\ pre # {} /\ Cardinality(db) = Cardinality(pre) + Len(input)

\* C6  Isolation from other callers: a read by another session never
\* observes an effect of a batch in progress; the effects are visible only
\* from the whole-batch commit on, and never when the batch rolls back.
C6_Isolation ==
    seen.read =>
        IF AtDone /\ ~Failed THEN seen.rows \in {pre, db}
        ELSE seen.rows = pre

\* another session read the store while the batch had released a
\* savepoint that changed its own view
C6_Witness ==
    pc = "loop" /\ ok_records # <<>> /\ tx # pre /\ seen.read
    /\ seen.rows = pre

\* stored siblings of the candidate whose interval is neither strictly
\* entirely before nor strictly entirely after the candidate's
EntirelyBefore(a, b) ==
    /\ a.start_operation_date < b.start_operation_date
    /\ a.start_operation_date < b.end_operation_date
    /\ a.end_operation_date < b.start_operation_date
    /\ a.end_operation_date < b.end_operation_date
Conflicting(rows, c) ==
    {r \in rows : /\ SameTriple(r.key, c.key)
                  /\ ~EntirelyBefore(r.key, c.key)
                  /\ ~EntirelyBefore(c.key, r.key)}
SelfConsistent(c) == c.key.start_operation_date < c.key.end_operation_date

\* C7  Overlap detection: for a candidate with start < end checked with
\* time_logic_check the result holds exactly one
\* TIME_LOGIC_CHECK_CONFLICTED per stored same-triple record that is not
\* strictly before or after the candidate, and none for any other record.
C7_OverlapDetection ==
    (/\ Checked
     /\ chk.flags.time_logic_check
     /\ SelfConsistent(chk.candidate))
    => CountCode(chk.outcome.error_codes, "TIME_LOGIC_CHECK_CONFLICTED")
            = Cardinality(Conflicting(db, chk.candidate))

\* C8  Interval self-consistency: check_integrity with time_logic_check on
\* a candidate with start >= end yields exactly one
\* TIME_LOGIC_CHECK_INVALID, no TIME_LOGIC_CHECK_CONFLICTED, and looks up
\* no sibling.
C8_SelfConsistency ==
    (/\ chk.fn = "check_integrity"
     /\ chk.flags.time_logic_check
     /\ ~SelfConsistent(chk.candidate))
    => /\ CountCode(chk.outcome.error_codes, "TIME_LOGIC_CHECK_INVALID") = 1
       /\ CountCode(chk.outcome.error_codes, "TIME_LOGIC_CHECK_CONFLICTED") = 0
       /\ \A q \in DOMAIN chk.outcome.queries :
            chk.outcome.queries[q] # "get_time_related_records"

\* C9  Symmetry: when A and B share the triple and neither interval is
\* fully before the other, checking A against a store holding B reports
\* TIME_LOGIC_CHECK_CONFLICTED, and so does checking B against a store
\* holding A.  B ranges over the stored rows and A is the candidate; the
\* stores and candidates range over the same keys, so each pair is met in
\* both roles.
C9_Symmetry ==
    (/\ Checked
     /\ chk.flags.time_logic_check
     /\ SelfConsistent(chk.candidate)
     /\ \E b \in db : /\ SelfConsistent(b)
                      /\ b \in Conflicting(db, chk.candidate))
    => CountCode(chk.outcome.error_codes, "TIME_LOGIC_CHECK_CONFLICTED") >= 1

\* C10  Violations are never thrown: for every candidate, flags and store
\* check_integrity returns its result as data and never ends in an
\* exception or a server error.
C10_NeverThrown ==
    chk.fn = "check_integrity" =>
        /\ chk.outcome.kind = "result"
        /\ chk.outcome.status # 500

PkCodes == {"PK_CHECK_FAILED"}
DatatypeCodes == {"DATATYPE_CHECK_FAILED", "DATATYPE_CHECK_FAILED_LENGTH"}
TimeLogicCodes == {"TIME_LOGIC_CHECK_INVALID", "TIME_LOGIC_CHECK_CONFLICTED"}
CountIn(codes, S) == Cardinality({j \in DOMAIN codes : codes[j] \in S})
FamilyRank(c) == IF c \in PkCodes THEN 1 ELSE IF c \in DatatypeCodes THEN 2 ELSE 3
KeyStored(rows, c) == \E r \in rows : r.key = c.key
TooLong(c) == c.val # Null /\ StrLen(c.val) > CodeMaxLength
ByCheckIntegrity == chk.fn = "check_integrity"

\* C11  Rule families are independent and ordered: a family contributes
\* violations only when its flag is true, all flags false gives no
\* violation, PK violations precede datatype violations which precede
\* time-logic violations, and a violation of an earlier family never
\* suppresses a later enabled family.
C11_FamiliesIndependentOrdered ==
    ByCheckIntegrity =>
        LET codes == chk.outcome.error_codes
            f == chk.flags
            c == chk.candidate
        IN  /\ ~f.pk_check => CountIn(codes, PkCodes) = 0
            /\ ~f.datatype_check => CountIn(codes, DatatypeCodes) = 0
            /\ ~f.time_logic_check => CountIn(codes, TimeLogicCodes) = 0
            /\ \A a, b \in DOMAIN codes :
                    a < b => FamilyRank(codes[a]) <= FamilyRank(codes[b])
            /\ (f.pk_check /\ KeyStored(db, c)) => CountIn(codes, PkCodes) = 1
            /\ (f.datatype_check /\ TooLong(c)) =>
                    CountIn(codes, DatatypeCodes) >= 1
            /\ (f.time_logic_check /\ ~SelfConsistent(c)) =>
                    CountCode(codes, "TIME_LOGIC_CHECK_INVALID") = 1
            /\ (f.time_logic_check /\ SelfConsistent(c)) =>
                    CountCode(codes, "TIME_LOGIC_CHECK_CONFLICTED")
                        = Cardinality(Conflicting(db, c))

\* C12  PK check: with pk_check the result holds exactly one
\* PK_CHECK_FAILED if and only if a stored record has the candidate's
\* five key fields; a record differing in one key field does not count.
C12_PkCheck ==
    (Checked /\ chk.flags.pk_check) =>
        CountCode(chk.outcome.error_codes, "PK_CHECK_FAILED")
            = (IF KeyStored(db, chk.candidate) THEN 1 ELSE 0)

\* C13  Parallel sequences: every result check_integrity returns carries
\* error_codes, error_messages and error_data, of the same length.
C13_ParallelSequences ==
    (ByCheckIntegrity /\ chk.outcome.kind = "result") =>
        /\ {"error_codes", "error_messages", "error_data"}
                \subseteq chk.outcome.fields
        /\ Len(chk.outcome.error_codes) = Len(chk.outcome.error_messages)
        /\ Len(chk.outcome.error_codes) = Len(chk.outcome.error_data)

\* C14  Length violation independence: with datatype_check a string field
\* longer than its declared maximum always yields a
\* DATATYPE_CHECK_FAILED_LENGTH violation.
C14_LengthViolation ==
    (ByCheckIntegrity /\ chk.flags.datatype_check /\ TooLong(chk.candidate))
    => CountCode(chk.outcome.error_codes, "DATATYPE_CHECK_FAILED_LENGTH") = 1

\* C15  The validator is read-only: whether the check returns a result or
\* ends in an error, the store is the store before the call, nothing is
\* left in a transaction, and only lookups were issued.
C15_ReadOnly ==
    Checked =>
        /\ db = pre
        /\ tx = db
        /\ calls = <<>>
        /\ \A q \in DOMAIN chk.outcome.queries :
                chk.outcome.queries[q]
                    \in {"get_by_unique_keys", "get_time_related_records"}

\* a check that made both lookups against a non-empty store has ended in
\* an error, and another has returned a result
C15_Witness ==
    /\ Checked /\ db # {} /\ Len(chk.outcome.queries) = 2
    /\ chk.outcome.kind = "HTTPException"

Answered == pc = "answered"
StoreErrorCodes == {"PG23505", "PG22001", "PG22003"}
Positions(k) == {j \in DOMAIN input : input[j].key = k}
ErrorsFor(k) == {e \in DOMAIN error_records : error_records[e].record.key = k}
CountCall(c) == Cardinality({j \in DOMAIN calls : calls[j] = c})
Supplying(k) == {j \in Positions(k) : input[j].val # Unset}
LastOf(S) == CHOOSE j \in S : \A m \in S : m <= j
MergedVal(k) ==
    IF Supplying(k) = {} THEN RowOf(pre, k).val
    ELSE input[LastOf(Supplying(k))].val

\* C16  Single-record Create pre-check: a single Create whose key is in
\* the store is answered 409 without any insert attempt, and the store,
\* the existing entity's values included, is unchanged.
C16_CreatePrecheck ==
    (/\ pc \in {"insert", "answered"}
     /\ op = "create_one"
     /\ Found(entity, pre, input[1].key))
    => /\ Answered
       /\ response.status = 409
       /\ db = pre
       /\ calls = <<"select">>

\* a Create carrying a different value for a stored key was answered 409
C16_Witness ==
    /\ Answered /\ op = "create_one" /\ response.status = 409
    /\ input[1].val \notin {Unset, RowOf(pre, input[1].key).val}
    /\ RowOf(db, input[1].key) = RowOf(pre, input[1].key)

\* C17  Batch Create performs no pre-check: a record whose key is in the
\* store, or was inserted by an earlier record of the batch, is still
\* inserted inside its savepoint, is rejected by the store and listed in
\* error_records with the store's code, never a duplicate-key or
\* not-found code, and the batch is rolled back as a whole.
C17_BatchCreateNoPrecheck ==
    (AtDone /\ op = "create") =>
        /\ CountCall("select") = 0
        /\ CountCall("flush") = Len(input)
        /\ \A e \in DOMAIN error_records :
                error_records[e].code \in StoreErrorCodes
        /\ \A j \in DOMAIN input :
            LET k == input[j].key
            IN  ~IsNone(entity, k) =>
                    /\ Cardinality(ErrorsFor(k)) >=
                            Cardinality(Positions(k))
                              - (IF k \in Keys(pre) THEN 0 ELSE 1)
                    /\ (k \in Keys(pre) \/ Cardinality(Positions(k)) > 1)
                            => /\ Failed
                               /\ db = pre
                               /\ calls[Len(calls)] = "rollback"

\* a batch Create into a non-empty store had one record accepted and one
\* rejected by the uniqueness constraint
C17_Witness ==
    /\ AtDone /\ op = "create" /\ pre # {} /\ ok_records # <<>>
    /\ \E e \in DOMAIN error_records :
            /\ error_records[e].code = "PG23505"
            /\ error_records[e].record.key \in Keys(pre)

\* C18  Constraint and data errors of single-record operations are client
\* errors: when the store rejects the write of a single Create or Update
\* the call is answered with a 4xx status, not a 5xx one.
C18_ConstraintErrorIsClientError ==
    (/\ Answered
     /\ calls # <<>>
     /\ calls[Len(calls)] = "commit")
    => (response.status >= 400 /\ response.status < 500)

\* C19  Update is a field merge: after a successful single or batch
\* Update every supplied field, an explicit null included, has the
\* supplied value, every field not supplied keeps its value, the key is
\* unchanged and no other entity is modified.
C19_FieldMerge ==
    (\/ (Answered /\ op = "update_one" /\ response.status = 200)
     \/ (AtDone /\ op = "update" /\ ~Failed))
    => /\ Keys(db) = Keys(pre)
       /\ \A k \in Keys(pre) :
            RowOf(db, k).val =
                (IF Positions(k) = {} THEN RowOf(pre, k).val
                 ELSE MergedVal(k))
       /\ Answered =>
            /\ input[1].key \in Keys(pre)
            /\ response.ok_records[1] = RowOf(db, input[1].key)

\* a batch Update of stored non-null values succeeded with one record
\* leaving the field out and one setting it to null
C19_Witness ==
    /\ AtDone /\ op = "update" /\ ~Failed /\ Len(ok_records) = 2
    /\ \E j \in DOMAIN input :
            /\ input[j].val = Unset
            /\ Found(entity, pre, input[j].key)
            /\ RowOf(pre, input[j].key).val # Null
            /\ RowOf(db, input[j].key).val = RowOf(pre, input[j].key).val
    /\ \E j \in DOMAIN input :
            /\ input[j].val = Null
            /\ Found(entity, pre, input[j].key)
            /\ RowOf(pre, input[j].key).val # Null

\* C20  Single-record Update of an absent key, a user update without id
\* included, is answered 404, writes and commits nothing, leaves the
\* store unchanged, and is never turned into a server error.
C20_UpdateNotFound ==
    (/\ Answered
     /\ op = "update_one"
     /\ ~Found(entity, pre, input[1].key))
    => /\ response.status = 404
       /\ db = pre
       /\ CountCall("add") = 0
       /\ CountCall("commit") = 0

\* a user update carrying no id was answered while the store held a user
C20_Witness ==
    /\ Answered /\ op = "update_one" /\ IsNone(entity, input[1].key)
    /\ pre # {} /\ response.status = 404

\* C21  Empty batch: a batch Create, Update or Delete with an empty input
\* list returns two empty lists, is answered as success, and touches the
\* store in no way: no lookup, savepoint, flush, commit or rollback.
C21_EmptyBatch ==
    (AtDone /\ input = <<>>) =>
        /\ ok_records = <<>>
        /\ error_records = <<>>
        /\ response = [status |-> 200, ok_records |-> <<>>,
                       error_records |-> <<>>]
        /\ calls = <<>>
        /\ db = pre
        /\ tx = pre

\* an empty batch Delete was answered while the store held a record
C21_Witness ==
    AtDone /\ input = <<>> /\ op = "delete" /\ pre # {}
    /\ response.status = 200

Visited == 1..(i - 1)
InBatch == pc \in {"loop", "done"}

\* C22  Per-record errors never interrupt iteration: after a failure at
\* record i every later record is still visited exactly once, in input
\* order, with its own lookup or savepoint attempt and its own outcome.
C22_IterationNeverInterrupted ==
    InBatch =>
        /\ i <= Len(input) + 1
        /\ AtDone => i = Len(input) + 1
        /\ Len(ok_records) + Len(error_records) = i - 1
        /\ op = "create" => CountCall("begin_nested") = i - 1
        /\ op \in {"update", "delete"} =>
                CountCall("select") =
                    Cardinality({j \in Visited : ~IsNone(entity, input[j].key)})

DecisionCalls == {"commit", "rollback"}

\* C23  Whole-batch decision: the outer commit or rollback is issued only
\* after the last record; the transaction is rolled back iff error_records
\* is non-empty, committed exactly once iff error_records is empty and
\* ok_records is not, never both; entities are refreshed only after a
\* commit.
C23_WholeBatchDecision ==
    InBatch =>
        /\ pc = "loop" =>
                \A j \in DOMAIN calls :
                    calls[j] \notin DecisionCalls \cup {"refresh"}
        /\ AtDone =>
            /\ CountCall("rollback") = (IF Failed THEN 1 ELSE 0)
            /\ CountCall("commit") =
                    (IF ~Failed /\ ok_records # <<>> THEN 1 ELSE 0)
            /\ CountCall("rollback") + CountCall("commit") <= 1
            /\ \A j \in DOMAIN calls :
                /\ calls[j] \in DecisionCalls =>
                        \A m \in DOMAIN calls : m > j => calls[m] = "refresh"
                /\ calls[j] = "refresh" => (j > 1 /\ calls[j - 1] = "commit")
            /\ Failed => db = pre
            /\ (~Failed /\ ok_records # <<>>) => db = tx

\* a full batch with one accepted and one rejected record ended in a
\* rollback issued after both savepoints
C23_Witness ==
    /\ AtDone /\ Len(input) = MaxBatch /\ Len(ok_records) >= 1
    /\ Len(error_records) >= 1
    /\ calls[Len(calls)] = "rollback"
    /\ CountCall("begin_nested") >= 1

OkRows == {ok_records[j] : j \in DOMAIN ok_records}
OksFor(k) == {j \in DOMAIN ok_records : ok_records[j].key = k}
VisitedFor(k) == {j \in Visited : input[j].key = k}

SavepointEnds == {"sp_commit", "sp_rollback"}
StoreRejections ==
    {e \in DOMAIN error_records : error_records[e].code # "NotFoundError"}

\* C25  Savepoints are strictly sequential: every savepoint that is opened
\* is flushed and then committed or rolled back before the next one is
\* opened and before the outer commit or rollback; a record whose key is
\* not found opens no savepoint.
C25_SavepointsSequential ==
    InBatch =>
        /\ \A j \in DOMAIN calls :
            /\ calls[j] = "begin_nested" =>
                /\ j + 2 <= Len(calls)
                /\ calls[j + 1] = "flush"
                /\ calls[j + 2] \in SavepointEnds
            /\ calls[j] = "flush" => (j > 1 /\ calls[j - 1] = "begin_nested")
            /\ calls[j] \in SavepointEnds => (j > 1 /\ calls[j - 1] = "flush")
        /\ CountCall("sp_commit") = Len(ok_records)
        /\ CountCall("sp_rollback") = Cardinality(StoreRejections)
        /\ CountCall("begin_nested") =
                Len(ok_records) + Cardinality(StoreRejections)

\* a batch Update went through a not-found record, which opened no
\* savepoint, and a found one, whose savepoint was closed
C25_Witness ==
    /\ AtDone /\ op = "update" /\ entity = "user" /\ Len(input) = MaxBatch
    /\ Len(error_records) = 1 /\ error_records[1].code = "NotFoundError"
    /\ CountCall("begin_nested") = MaxBatch - 1
    /\ CountCall("select") >= 1

Increasing(f) == \A a, b \in DOMAIN f : a < b => f[a] < f[b]

\* C26  Outcome correlation and order: every error_records entry has level
\* "E" and carries the input record that failed (its field values, an
\* unset field reading as null); distinct entries belong
\* to distinct input positions; ok_records and error_records each list
\* their entries in input order.
C26_OutcomeCorrelation ==
    InBatch =>
        \E f \in [DOMAIN ok_records -> Visited] :
        \E g \in [DOMAIN error_records -> Visited] :
            /\ Increasing(f)
            /\ Increasing(g)
            /\ \A m \in DOMAIN f : \A e \in DOMAIN g : f[m] # g[e]
            /\ \A e \in DOMAIN g :
                /\ error_records[e].level = "E"
                /\ error_records[e].record = ModelDump(input[g[e]])
            /\ \A m \in DOMAIN f :
                IF IsNone(entity, input[f[m]].key)
                THEN ok_records[m].key \in GenIds
                ELSE ok_records[m].key = input[f[m]].key

\* a full batch ended with a failed first record and an accepted second
\* one that differ in key and value
C26_Witness ==
    /\ AtDone /\ Len(input) = MaxBatch
    /\ Len(error_records) = 1 /\ Len(ok_records) = 1
    /\ error_records[1].record = ModelDump(input[1])
    /\ input[1].key # input[MaxBatch].key
    /\ input[1].val # input[MaxBatch].val
    /\ ok_records[1].key = input[MaxBatch].key

RequiredIsNull(c) == c.key.company_code = Null

\* C27  Datatype check of null values: with datatype_check a null value
\* yields exactly one DATATYPE_CHECK_FAILED when its field is required
\* and none when the field is optional; no type or length check follows
\* for that field, and the remaining fields are still checked.
C27_NullDatatype ==
    (ByCheckIntegrity /\ chk.flags.datatype_check) =>
        /\ CountCode(chk.outcome.error_codes, "DATATYPE_CHECK_FAILED")
                = (IF RequiredIsNull(chk.candidate) THEN 1 ELSE 0)
        /\ CountCode(chk.outcome.error_codes, "DATATYPE_CHECK_FAILED_LENGTH")
                = (IF TooLong(chk.candidate) THEN 1 ELSE 0)

UniqueKeys(rows) == \A r1, r2 \in rows : r1.key = r2.key => r1 = r2

\* C28  Key-set invariants: the store never holds two entities with one
\* key; an Update never adds or removes a key; a batch that reports
\* errors leaves the key set as it was; a successful batch Delete removes
\* exactly the keys its input names.
C28_KeySetInvariants ==
    /\ UniqueKeys(db)
    /\ UniqueKeys(tx)
    /\ (Answered /\ op = "update_one") => Keys(db) = Keys(pre)
    /\ (InBatch /\ op = "update") =>
            (Keys(db) = Keys(pre) /\ Keys(tx) = Keys(pre))
    /\ (AtDone /\ Failed) => Keys(db) = Keys(pre)
    /\ (AtDone /\ op = "delete" /\ ~Failed) =>
            /\ NamedKeys(input) \subseteq Keys(pre)
            /\ Keys(db) = Keys(pre) \ NamedKeys(input)
            /\ db \subseteq pre

\* a batch Delete removed one of two stored records and kept the other
C28_Witness ==
    /\ AtDone /\ op = "delete" /\ ~Failed /\ Len(input) = 1
    /\ Cardinality(pre) = 2 /\ Cardinality(db) = 1
    /\ input[1].key \notin Keys(db)

\* both single-record Creates of one key passed the look-up before either
\* committed, each carries a record the store would accept on its own,
\* and both have been answered
Raced ==
    /\ Answered /\ op = "create_one"
    /\ rival.pc = "answered"
    /\ response.status # 409 /\ rival.response.status # 409
    /\ CreateFlushError(entity, pre, NewRow(input[1].key, input[1])) = ""
    /\ CreateFlushError(entity, pre,
                        NewRow(rival.record.key, rival.record)) = ""

C30_SelfConflict ==
    (/\ Checked
     /\ chk.flags.time_logic_check
     /\ SelfConsistent(chk.candidate)
     /\ KeyStored(db, chk.candidate))
    => /\ chk.outcome.kind = "result"
       /\ CountCode(chk.outcome.error_codes, "TIME_LOGIC_CHECK_CONFLICTED")
            >= 1
       /\ \E j \in 1..Len(chk.outcome.error_data) :
            /\ "pk_conflicted" \in DOMAIN chk.outcome.error_data[j]
            /\ chk.outcome.error_data[j].pk_conflicted = chk.candidate.key

====
